---- MODULE Spec2Model ----
(***************************************************************************)
(* Rate-limited, cached upstream-access core of the Events backend:        *)
(*   TwitterRateLimiter and APICache (Backend/services/rate_limiter.py)    *)
(*   TwitterClient.make_request_with_retry (Backend/services/              *)
(*   twitter_client.py).                                                   *)
(*                                                                         *)
(* Time is one integer clock `now` that stands for both datetime.now()     *)
(* and time.time(); one tick is one unit of the scaled window and TTL.     *)
(* The second-scale sleeps of the caller are below that resolution: a      *)
(* sleeping caller is a caller that has not yet taken its next step while  *)
(* the clock may or may not advance.                                       *)
(*                                                                         *)
(* SmartEventEngine with its range cache (Backend/engines/                 *)
(* event_engine.py), SmartAttendeeEngine.discover_attendees (Backend/      *)
(* engines/attendee_engine.py) and the discover_events handler (Backend/   *)
(* app.py) are modelled after them.                                        *)
(*                                                                         *)
(* Specifications:                                                         *)
(*   SpecQuota  the tracker used through its locked operations, one call   *)
(*              at a time, with every header dict and an advancing clock   *)
(*   SpecTracker  the same with header values int() rejects, an untracked  *)
(*              endpoint for update_from_headers, and get_wait_time        *)
(*   SpecConc   NThreads threads inside check_rate_limit, step by step     *)
(*              (lock, load of remaining, store and release)               *)
(*   SpecCache  APICache used directly: get, set, clear_expired            *)
(*   SpecCall   one call of make_request_with_retry, step by step, while   *)
(*              the other requests of the process act on the shared        *)
(*              tracker and cache through the same locked operations       *)
(*   SpecEvents discover_events requests, one after the other, with every  *)
(*              outcome of the fetch                                       *)
(*   SpecDiscover  setup_client, then search_recent_tweets_safe and        *)
(*              discover_attendees step by step through the call, next to  *)
(*              discover_events requests                                   *)
(*   SpecLive   check_rate_limit called again and again on the tracked     *)
(*              endpoints while time passes without end, no metadata       *)
(*   SpecRange  request threads inside _cache_events at the same time, a   *)
(*              dict operation at a time                                   *)
(***************************************************************************)
EXTENDS Integers, Sequences, FiniteSets, TLC

VARIABLES
    now,          \* the wall clock read by datetime.now() / time.time()
    rate_limits,  \* TwitterRateLimiter.rate_limits: endpoint -> limit_info
    op,           \* the sequential tracker call made last, if any since the last tick
    lock,         \* TwitterRateLimiter.lock: 0 when free, else the holding thread
    tpc,          \* per thread: position inside check_rate_limit
    tend,         \* per thread: the endpoint argument of the running check
    tcur,         \* per thread: the value of limit_info['remaining'] it loaded
    tret,         \* per thread: what its check_rate_limit returned
    cache,        \* APICache.cache: key -> (data, timestamp)
    cop,          \* the direct APICache call made last, if any since the last tick
    cpc,          \* the observed call(): position inside make_request_with_retry
    cend,         \* its endpoint argument
    cqry,         \* its query argument ("" when none is given)
    attempt,      \* its loop variable `attempt`
    outs,         \* outcome of each request_func call it has made so far
    units,        \* quota units its check_rate_limit calls have consumed
    result,       \* `response` while storing, the returned value when done
    hit,          \* whether it returned the cached value (line 70)
    moved,        \* whether a tracker call of its running attempt changed the tracker
    client,       \* TwitterClient.client: "None" until setup_client succeeds
    apc,          \* the request through the wrappers: new, idle, calling, done
    via,          \* the entry point of the running call: direct, search, attendees
    amax,         \* max_results of the running discover_attendees
    aret,         \* what the wrapper entered last returned
    event_cache,  \* SmartEventEngine.event_cache: location -> ordered ranges
    ev_op,        \* the discover_events call made last, if any
    rpc,          \* per fetcher thread: position inside _cache_events
    rkey,         \* per fetcher thread: the (start_date, end_date) it stores under
    rold,         \* per fetcher thread: its local oldest_key
    rbase,        \* event_cache when the running batch of fetches began
    uop,          \* the update_from_headers or get_wait_time call made last, if any
    qlog          \* per tracked endpoint: how its checks have gone since the last grant

quotaVars == <<rate_limits, op>>
threadVars == <<lock, tpc, tend, tcur, tret>>
cacheVars == <<cache, cop>>
callVars == <<cpc, cend, cqry, attempt, outs, units, result, hit, moved>>
wrapVars == <<client, apc, via, amax, aret>>
eventVars == <<event_cache, ev_op>>
rangeVars == <<rpc, rkey, rold, rbase>>
vars == <<now, rate_limits, op, lock, tpc, tend, tcur, tret, cache, cop,
          cpc, cend, cqry, attempt, outs, units, result, hit, moved,
          client, apc, via, amax, aret, event_cache, ev_op,
          rpc, rkey, rold, rbase, uop, qlog>>

----------------------------------------------------------------------------
(* Bounds of the model *)

\* limit/remaining of 'search_recent' at construction (450 in the source, scaled)
SearchLimit == 2
\* limit/remaining of 'users' at construction (300 in the source, scaled)
UsersLimit == 1
\* window_minutes of both endpoints, in ticks (15 minutes in the source, scaled)
WindowTicks == 1
\* the clock runs from 0 to MaxTime
MaxTime == 2
\* largest limit/remaining an upstream rate-limit header carries in the model
MaxHeader == 1
\* number of threads that run check_rate_limit concurrently
NThreads == 3
\* APICache.ttl in ticks (ttl_minutes = 30 in the source: two windows, scaled)
TtlTicks == 2

----------------------------------------------------------------------------
(* TwitterRateLimiter *)

\* reset_time = None
None == -1

\* a header value int() cannot parse (int() raises ValueError)
Unparseable == -2

Tracked == {"search_recent", "users"}
\* endpoint names a caller may pass; "lists" has no entry in rate_limits
Endpoints == Tracked \cup {"lists"}
Threads == 1..NThreads

HLimit == "x-rate-limit-limit"
HRemaining == "x-rate-limit-remaining"
HReset == "x-rate-limit-reset"
HeaderKeys == {HLimit, HRemaining, HReset}

\* the values an upstream header may carry at time t: counts up to MaxHeader,
\* and a reset stamp from just before t to one window after t
HeaderValues(k, t) ==
    IF k = HReset THEN { r \in (t - 1)..(t + WindowTicks) : r >= 0 }
    ELSE 0..MaxHeader

\* the dicts update_from_headers may be handed at time t: any subset of the
\* three keys, every value one that int() parses
ParsedHeaderDicts(t) ==
    UNION { { h \in [S -> 0..(MaxTime + WindowTicks + MaxHeader)] :
                \A k \in S : h[k] \in HeaderValues(k, t) } : S \in SUBSET HeaderKeys }

setup_default_limits ==
    [e \in Tracked |->
        [limit |-> IF e = "search_recent" THEN SearchLimit ELSE UsersLimit,
         remaining |-> IF e = "search_recent" THEN SearchLimit ELSE UsersLimit,
         reset_time |-> None,
         window_minutes |-> WindowTicks]]

\* datetime.now() > limit_info['reset_time']
ResetDue(info, t) == info.reset_time # None /\ t > info.reset_time

\* lines 41-43: the reset applied at the top of check_rate_limit
ApplyResetMutNever(info, t) == info
ApplyReset(info, t) ==
    IF ResetDue(info, t)
    THEN [info EXCEPT !.remaining = info.limit, !.reset_time = None]
    ELSE info

\* lines 45-51 on the loaded value cur of limit_info['remaining']:
\* the store of the decrement, or the scheduling of the reset
ConsumeMutMoveReset(info, cur, t) ==
    IF cur > 0
    THEN [info EXCEPT !.remaining = cur - 1]
    ELSE [info EXCEPT !.reset_time = t + info.window_minutes]
ConsumeMutTwice(info, cur, t) ==
    IF cur > 0
    THEN [info EXCEPT !.remaining = cur - 2]
    ELSE IF info.reset_time = None
         THEN [info EXCEPT !.reset_time = t + info.window_minutes]
         ELSE info
Consume(info, cur, t) ==
    IF cur > 0
    THEN [info EXCEPT !.remaining = cur - 1]
    ELSE IF info.reset_time = None
         THEN [info EXCEPT !.reset_time = t + info.window_minutes]
         ELSE info

\* the value check_rate_limit returns for the loaded remaining
Permit(cur) == cur > 0

\* check_rate_limit as one critical section: [limits, ok, used], `used` being
\* the quota units the call took off remaining (counted after the reset)
CheckRateLimitMutNoConsume(rl, e, t) ==
    IF e \notin DOMAIN rl
    THEN [limits |-> rl, ok |-> TRUE, used |-> 0]
    ELSE LET mid == ApplyReset(rl[e], t)
         IN  [limits |-> [rl EXCEPT ![e] = mid],
              ok |-> Permit(mid.remaining),
              used |-> 0]
CheckRateLimitMutClosed(rl, e, t) ==
    IF e \notin DOMAIN rl
    THEN [limits |-> rl, ok |-> FALSE, used |-> 0]
    ELSE LET mid == ApplyReset(rl[e], t)
             post == Consume(mid, mid.remaining, t)
         IN  [limits |-> [rl EXCEPT ![e] = post],
              ok |-> Permit(mid.remaining),
              used |-> mid.remaining - post.remaining]
CheckRateLimit(rl, e, t) ==
    IF e \notin DOMAIN rl
    THEN [limits |-> rl, ok |-> TRUE, used |-> 0]
    ELSE LET mid == ApplyReset(rl[e], t)
             post == Consume(mid, mid.remaining, t)
         IN  [limits |-> [rl EXCEPT ![e] = post],
              ok |-> Permit(mid.remaining),
              used |-> mid.remaining - post.remaining]

\* datetime.fromtimestamp(epoch): the instant on the clock datetime.now() reads
FromTimestamp(ts) == ts

\* update_from_headers: the fields are parsed and stored in source order, and
\* an int() that raises leaves the fields stored before it in place.
\* [limits, raised]
UpdateFromHeaders(rl, e, h) ==
    IF e \notin DOMAIN rl
    THEN [limits |-> rl, raised |-> FALSE]
    ELSE
    LET has(k) == k \in DOMAIN h
        bad(k) == has(k) /\ h[k] = Unparseable
        i0 == rl[e]
        i1 == IF has(HLimit) /\ ~bad(HLimit) THEN [i0 EXCEPT !.limit = h[HLimit]] ELSE i0
        stop1 == bad(HLimit)
        i2 == IF ~stop1 /\ has(HRemaining) /\ ~bad(HRemaining)
              THEN [i1 EXCEPT !.remaining = h[HRemaining]] ELSE i1
        stop2 == stop1 \/ bad(HRemaining)
        i3 == IF ~stop2 /\ has(HReset) /\ ~bad(HReset)
              THEN [i2 EXCEPT !.reset_time = FromTimestamp(h[HReset])] ELSE i2
        stop3 == stop2 \/ bad(HReset)
    IN  [limits |-> [rl EXCEPT ![e] = i3], raised |-> stop3]

----------------------------------------------------------------------------
(* Responses and APICache *)

\* the empty headers dict
NoHeaders == [k \in {} |-> 0]

\* Python's None: what a miss returns, and a falsy response
PyNone == [body |-> "None", has_headers |-> FALSE, headers |-> NoHeaders]

\* a response object without a `headers` attribute
Plain(b) == [body |-> b, has_headers |-> FALSE, headers |-> NoHeaders]

\* a response object that carries a `headers` dict
WithHeaders(b, h) == [body |-> b, has_headers |-> TRUE, headers |-> h]

\* bool(response): None and an empty result are falsy
Truthy(r) == r.body \notin {"None", "empty"}

Queries == {"", "fest", "expo"}

\* f"search_{hash(query)}"; hash() is one-to-one on the model's queries
CacheKey(q) == "search_" \o q

CacheKeys == { CacheKey(q) : q \in Queries \ {""} }

\* values handed to APICache.set directly
CacheValues == {PyNone, Plain("r1"), Plain("r2")}

\* time.time() - timestamp < self.ttl
CacheLiveMutLe(entry, t) == t - entry.timestamp <= TtlTicks
CacheLive(entry, t) == t - entry.timestamp < TtlTicks

Drop(c, k) == [x \in DOMAIN c \ {k} |-> c[x]]

\* APICache.get: [cache, ret, evicted]
CacheGet(c, k, t) ==
    IF k \in DOMAIN c
    THEN IF CacheLive(c[k], t)
         THEN [cache |-> c, ret |-> c[k].data, evicted |-> FALSE]
         ELSE [cache |-> Drop(c, k), ret |-> PyNone, evicted |-> TRUE]
    ELSE [cache |-> c, ret |-> PyNone, evicted |-> FALSE]

\* APICache.set
CacheSet(c, k, v, t) ==
    [x \in DOMAIN c \cup {k} |-> IF x = k THEN [data |-> v, timestamp |-> t] ELSE c[x]]

\* APICache.clear_expired
ClearExpiredMutGt(c, t) ==
    LET expired_keys == { k \in DOMAIN c : t - c[k].timestamp > TtlTicks }
    IN  [x \in DOMAIN c \ expired_keys |-> c[x]]
ClearExpired(c, t) ==
    LET expired_keys == { k \in DOMAIN c : t - c[k].timestamp >= TtlTicks }
    IN  [x \in DOMAIN c \ expired_keys |-> c[x]]

----------------------------------------------------------------------------
(* TwitterClient.make_request_with_retry: inputs and pure parts *)

\* max_retries = 1
max_retries_MutTwo == 1 + 1
max_retries == 1

\* endpoints and queries the callers pass
CallEndpoints == {"search_recent", "users"}
CallQueries == {"", "fest"}

\* lines 62-66: the cache key, "" standing for cache_key = None
CacheKeyOf(e, q) == IF e = "search_recent" /\ q # "" THEN CacheKey(q) ELSE ""

\* what request_func does: it raises tweepy.TooManyRequests ("tmr"),
\* tweepy.BadRequest ("bad") or another exception ("other"), or returns a response
Raises == {"tmr", "bad", "other"}

\* upstream metadata of a response: complete (the upstream window ends at
\* WindowTicks and is used up), or with a value int() rejects
FullHeaders ==
    (HLimit :> MaxHeader) @@ (HRemaining :> 0) @@ (HReset :> WindowTicks)
BrokenHeaders == (HLimit :> MaxHeader) @@ (HRemaining :> Unparseable)

\* what request_func may return: None, a bare result, results with metadata
CallResponses ==
    {PyNone, Plain("r1"), WithHeaders("r2", FullHeaders), WithHeaders("r3", BrokenHeaders)}

\* the responses a call can reach line 82 with
Storable == { r \in CallResponses :
                ~(r.has_headers /\ \E k \in DOMAIN r.headers : r.headers[k] = Unparseable) }

\* the except clauses, lines 86-111: TRUE when the loop goes on to another attempt
RetriesMutRetryBad(kind, a) == a < max_retries
RetriesMutNoRetry(kind, a) == FALSE
Retries(kind, a) == kind # "bad" /\ a < max_retries

\* line 81: `if cache_key and response`
StoresMutNever(key, r) == FALSE
Stores(key, r) == key # "" /\ Truthy(r)

\* line 68: `if cached`
Serves(r) == Truthy(r)

\* lines 52-58: a denied caller sleeps (at most 15 s), then goes on with the
\* same attempt
AfterCheckMutHardBlock(ok) == IF ok THEN "lookup" ELSE "done"
AfterCheck(ok) == IF ok THEN "lookup" ELSE "wait"

\* lines 86, 100, 104: the except clauses of the attempt; `except Exception`
\* takes what the two tweepy clauses leave
HandledMutTweepyOnly(kind) == kind \in {"tmr", "bad"}
Handled(kind) == kind \in {"tmr", "bad", "other"}

----------------------------------------------------------------------------
(* The wrappers: TwitterClient.search_recent_tweets_safe and                *)
(* SmartAttendeeEngine.discover_attendees                                   *)

Min(a, b) == IF a < b THEN a ELSE b
Max(a, b) == IF a > b THEN a ELSE b

\* what the upstream metadata of the model carries for a field at time t: a
\* count, the end of the upstream window one window ahead, or a value int()
\* rejects
MetadataValues(k, t) ==
    (IF k = HReset THEN {t + WindowTicks} ELSE {IF k = HLimit THEN MaxHeader ELSE 0})
        \cup {Unparseable}

\* the header dicts of the model at time t: any subset of the three keys
MetadataDicts(t) ==
    UNION { { h \in [S -> {Unparseable} \cup 0..(MaxTime + WindowTicks + MaxHeader)] :
                \A k \in S : h[k] \in MetadataValues(k, t) } : S \in SUBSET HeaderKeys }

\* seconds in one tick of the clock (window_minutes = 15, one window a tick)
TickSeconds == 900

\* line 83: the wait recommended when no reset is scheduled, in seconds
DefaultWait == 60

\* (reset_time - datetime.now()).total_seconds()
TotalSeconds(ticks) == ticks * TickSeconds

\* get_wait_time, lines 71-83
get_wait_time_MutNoClamp(rl, e, t) ==
    IF e \notin DOMAIN rl
    THEN 0
    ELSE IF rl[e].reset_time # None
         THEN TotalSeconds(rl[e].reset_time - t)
         ELSE DefaultWait
get_wait_time(rl, e, t) ==
    IF e \notin DOMAIN rl
    THEN 0
    ELSE IF rl[e].reset_time # None
         THEN Max(TotalSeconds(rl[e].reset_time - t), 0)
         ELSE DefaultWait

NoTrackerOp ==
    [name |-> "none", endpoint |-> "", headers |-> NoHeaders, raised |-> FALSE, ret |-> 0]

\* Python's seq[:m]: a negative m counts from the end
Slice(s, m) ==
    LET k == IF m >= 0 THEN Min(m, Len(s)) ELSE Max(0, Len(s) + m)
    IN  SubSeq(s, 1, k)

\* twitter_client.py 140-142
is_operational(c) == c # "None"

\* twitter_client.py 123: self.client.search_recent_tweets is an
\* AttributeError when client is None; the except of line 128 takes it
BindsSearch(c) == c # "None"

\* event names given to discover_attendees; "!!" has no word character
EventNames == {"fest", "!!"}

\* attendee_engine.py 77: re.sub(r'[^\w\s]', '', name).strip()
Clean(name) == IF name = "!!" THEN "" ELSE name

\* attendee_engine.py 73-88
build_single_query(name) ==
    IF Clean(name) = ""
    THEN ""
    ELSE "\"" \o Clean(name) \o "\" OR attending \"" \o Clean(name) \o "\" -is:retweet"

\* queries given to search_recent_tweets_safe directly
SearchQueries == {"", build_single_query("fest")}

\* max_results given to discover_attendees
AttendeeLimits == {1, 2}

\* attendee_engine.py 110-136: the authors of the tweets of a response, in
\* the order of tweets.data (a response without data has none)
TweetsOf(r) ==
    CASE r.body = "r1" -> <<"ann", "bob">>
      [] r.body = "r3" -> <<"ann">>
      [] OTHER -> <<>>

\* attendee_engine.py 195-216: the confidence of an attendee, in tenths
Confidence(u) == IF u = "bob" THEN 9 ELSE 7

\* attendee_engine.py 218: sorted(..., reverse=True), a stable sort
RECURSIVE SortedByConfidence(_)
SortedByConfidence(s) ==
    IF s = <<>>
    THEN <<>>
    ELSE LET rest == SortedByConfidence(Tail(s))
             more == SelectSeq(rest, LAMBDA u : Confidence(u) > Confidence(Head(s)))
             less == SelectSeq(rest, LAMBDA u : Confidence(u) <= Confidence(Head(s)))
         IN  more \o <<Head(s)>> \o less

\* attendee_engine.py 45, 56, 71, 94, 112, 141: `return []`
EmptyResultMutSome == <<"nobody">>
EmptyResult == <<>>

\* attendee_engine.py 110-141 and 54-66: what discover_attendees makes of the
\* value search_recent_tweets_safe returned
AttendeesOf(r, m) ==
    IF ~Truthy(r) \/ TweetsOf(r) = <<>>
    THEN EmptyResult
    ELSE Slice(SortedByConfidence(TweetsOf(r)), m)

NoReturn == [kind |-> "none", response |-> PyNone, attendees |-> <<>>]
Response(r) == [kind |-> "response", response |-> r, attendees |-> <<>>]
Attendees(a) == [kind |-> "attendees", response |-> PyNone, attendees |-> a]

----------------------------------------------------------------------------
(* SmartEventEngine: the range cache and discover_events.  A datetime is    *)
(* counted in half days: 2 * d is midnight of day d, 2 * d + 1 is later on  *)
(* day d (the time of day datetime.now() carries).                          *)

\* the number of ranges a location keeps (event_engine.py 117), scaled down
MaxRanges == 2

\* the largest max_results the API passes on (app.py 77-78)
ApiMaxEvents == 20

\* app.py 77-78: a larger max_results is lowered, no other value is refused
ClampEvents(m) == IF m > ApiMaxEvents THEN ApiMaxEvents ELSE m

Locations == {"NYC", "LA"}

\* datetime.strptime(s, '%Y-%m-%d'): midnight of the day; raises on a
\* malformed string
Parses(d) == d # Unparseable
Midnight(d) == 2 * d

\* datetime.strftime('%Y-%m-%d'): the day, the time of day dropped
FormatDate(dt) == dt \div 2

\* str.strip() and str.lower() on the titles of the model
Strip(t) ==
    CASE t = "GALA " -> "GALA"
      [] t = "gala " -> "gala"
      [] OTHER -> t
Lower(t) ==
    CASE t = "Gala" -> "gala"
      [] t = "GALA" -> "gala"
      [] t = "GALA " -> "gala "
      [] t = "Expo" -> "expo"
      [] OTHER -> t

\* the (start_date, end_date) pairs asked for: [0,1] and [1,2] share day 1
\* only, [0,0] and [1,2] are apart, [2,2] lies inside [1,2]
QueryRanges == {<<0, 1>>, <<1, 2>>, <<2, 2>>, <<0, 0>>}

Query(l, s, e) == [location |-> l, start_date |-> s, end_date |-> e]

\* the requests of the model: every range for NYC, one day for LA, and one
\* request whose start_date is malformed
EventQueries ==
    { Query("NYC", r[1], r[2]) : r \in QueryRanges }
        \cup {Query("LA", 1, 1), Query("NYC", Unparseable, 1)}

\* the max_results of the requests: negative, zero, fewer and more than a
\* location can have cached, and one the API lowers
EventLimits == {0 - 1, 0, 1, 2, 3, ApiMaxEvents + 1}

\* an entry of events_results after _parse_event_date and its fallbacks
\* (event_engine.py 264-278): a title and a datetime
Raw(t, w) == [title |-> t, when |-> w]

\* what the SerpAPI queries of one fetch bring together (all_events before
\* extraction), or no answer at all (requests raising, HTTP status other
\* than 200)
Feeds ==
    { <<Raw("Gala", Midnight(1)), Raw("GALA ", Midnight(1) + 1)>>,
      <<Raw("GALA ", Midnight(1) + 1), Raw("Expo", Midnight(2))>>,
      <<Raw("", Midnight(1)), Raw("Expo", Midnight(0)), Raw("Expo", Midnight(2))>> }

UpstreamError == [ok |-> FALSE, events |-> <<>>]
Upstreams == {UpstreamError} \cup { [ok |-> TRUE, events |-> f] : f \in Feeds }

\* ResearchEvent, the fields the engine reads
Event(n, d) == [event_name |-> n, exact_date |-> d]

\* event_engine.py 283-287: start_dt <= event_date <= end_dt
InRangeMutNoFilter(when, s, e) == TRUE
InRange(when, s, e) == Midnight(s) <= when /\ when <= Midnight(e)

\* event_engine.py 255-301 and 401-418: the titled entries inside the range,
\* as ResearchEvents
extract_events_from_serpapi(raw, s, e) ==
    LET kept == SelectSeq(raw, LAMBDA x :
                    /\ Strip(x.title) \notin {"", "Unknown"}
                    /\ InRange(x.when, s, e))
    IN  [i \in 1..Len(kept) |-> Event(Strip(kept[i].title), FormatDate(kept[i].when))]

\* event_engine.py 123-180: every exception ends in `return []`
get_new_events_serpapi_MutStale(up, s, e, n) ==
    IF ~up.ok \/ ~Parses(s) \/ ~Parses(e)
    THEN <<Event("Stale", e)>>
    ELSE Slice(extract_events_from_serpapi(up.events, s, e), n)
get_new_events_serpapi(up, s, e, n) ==
    IF ~up.ok \/ ~Parses(s) \/ ~Parses(e)
    THEN <<>>
    ELSE Slice(extract_events_from_serpapi(up.events, s, e), n)

\* event_engine.py 102-104
ranges_overlap_MutStrict(start1, end1, start2, end2) ==
    ~(end1 <= start2 \/ start1 >= end2)
ranges_overlap(start1, end1, start2, end2) == ~(end1 < start2 \/ start1 > end2)

\* event_engine.py 85-98: the events one stored range gives to a search; the
\* key "start_end" is split and parsed, each exact_date is parsed
HitsOfRange(r, qs, qe) ==
    IF ranges_overlap(Midnight(qs), Midnight(qe), Midnight(r.key[1]), Midnight(r.key[2]))
    THEN SelectSeq(r.events, LAMBDA ev :
             /\ Midnight(qs) <= Midnight(ev.exact_date)
             /\ Midnight(ev.exact_date) <= Midnight(qe))
    ELSE <<>>

RECURSIVE CachedFrom(_, _, _)
CachedFrom(ranges, qs, qe) ==
    IF ranges = <<>>
    THEN <<>>
    ELSE HitsOfRange(Head(ranges), qs, qe) \o CachedFrom(Tail(ranges), qs, qe)

\* event_engine.py 74-100: nothing is parsed for a location never stored
get_cached_events(c, l, qs, qe) ==
    IF l \notin DOMAIN c
    THEN [raised |-> FALSE, events |-> <<>>]
    ELSE IF ~Parses(qs) \/ ~Parses(qe)
         THEN [raised |-> TRUE, events |-> <<>>]
         ELSE [raised |-> FALSE, events |-> CachedFrom(c[l], qs, qe)]

\* event_engine.py 112: dict[key] = events keeps the place of a key it has
Put(ranges, k, evs) ==
    IF \E i \in 1..Len(ranges) : ranges[i].key = k
    THEN [i \in 1..Len(ranges) |->
             IF ranges[i].key = k THEN [key |-> k, events |-> evs] ELSE ranges[i]]
    ELSE Append(ranges, [key |-> k, events |-> evs])

\* event_engine.py 117-121: next(iter(...)) is the first key of the dict
EvictMutNewest(ranges) ==
    IF Len(ranges) > MaxRanges THEN SubSeq(ranges, 1, Len(ranges) - 1) ELSE ranges
Evict(ranges) == IF Len(ranges) > MaxRanges THEN Tail(ranges) ELSE ranges

\* event_engine.py 106-121
cache_events(c, l, s, e, evs) ==
    LET base == IF l \in DOMAIN c THEN c[l] ELSE <<>>
    IN  [x \in DOMAIN c \cup {l} |->
            IF x = l THEN Evict(Put(base, <<s, e>>, evs)) ELSE c[x]]

\* event_engine.py 394: the identifier of an event
Identifier(ev) == <<Strip(Lower(ev.event_name)), ev.exact_date>>

\* event_engine.py 388-399
RECURSIVE Unique(_, _)
Unique(evs, seen) ==
    IF evs = <<>>
    THEN <<>>
    ELSE IF Identifier(Head(evs)) \in seen
         THEN Unique(Tail(evs), seen)
         ELSE <<Head(evs)>> \o Unique(Tail(evs), seen \cup {Identifier(Head(evs))})

remove_duplicates_MutKeepAll(evs) == evs
remove_duplicates(evs) == Unique(evs, {})

\* event_engine.py 43
NeededMutIgnoreCache(m, c) == Max(0, m)
Needed(m, c) == Max(0, m - c)

\* the keys of the ranges of a location, in dict order
KeysOf(c, l) == IF l \in DOMAIN c THEN [i \in 1..Len(c[l]) |-> c[l][i].key] ELSE <<>>

\* event_engine.py 33-72: the cache afterwards, the cached hits, the max_results
\* of each _get_new_events_serpapi call, what it returned, what is returned
discover_events(c, l, s, e, m, up) ==
    LET got == get_cached_events(c, l, s, e)
        needed == Needed(m, Len(got.events))
        new_events == IF needed > 0 THEN get_new_events_serpapi(up, s, e, needed) ELSE <<>>
    IN  IF got.raised
        THEN [cache |-> c, cached |-> <<>>, asked |-> <<>>, fresh |-> <<>>,
              caught |-> TRUE, ret |-> <<>>]
        ELSE [cache |-> IF new_events # <<>> THEN cache_events(c, l, s, e, new_events) ELSE c,
              cached |-> got.events,
              asked |-> IF needed > 0 THEN <<needed>> ELSE <<>>,
              fresh |-> new_events,
              caught |-> FALSE,
              ret |-> Slice(remove_duplicates(got.events \o new_events), m)]

NoEventOp ==
    [name |-> "none", query |-> Query("", 0, 0), max_results |-> 0, ok |-> TRUE,
     cached |-> <<>>, asked |-> <<>>, fresh |-> <<>>, caught |-> FALSE, ret |-> <<>>,
     dropped |-> {}]

\* number of request threads inside _cache_events at once
NFetchers == 2
Fetchers == 1..NFetchers

\* the location the concurrent fetches are for, and their (start, end) pairs
RangeLocation == "NYC"
RangeKeys == QueryRanges

\* no key: oldest_key before line 119 assigns it
NoKey == <<None, None>>

\* new_events at line 58, never empty there: what the fetch for a range brought
FetchedFor(k) == <<Event("Gala", k[1])>>

\* event_engine.py 117
TooMany(ranges) == Len(ranges) > MaxRanges

\* event_engine.py 109: self.event_cache[location] = {}
Created(c, l) == [x \in DOMAIN c \cup {l} |-> IF x = l THEN <<>> ELSE c[x]]

\* event_engine.py 120: del of a key the dict holds
Without(ranges, k) == SelectSeq(ranges, LAMBDA r : r.key # k)

----------------------------------------------------------------------------
(* The state after construction, and the clock *)

OtherOp == [name |-> "other", endpoint |-> "", ok |-> TRUE]

NoCacheOp == [name |-> "none", key |-> "", ret |-> PyNone, evicted |-> FALSE]

InitCache ==
    /\ cache = [k \in {} |-> 0]
    /\ cop = NoCacheOp

InitCall ==
    /\ cpc = "idle"
    /\ cend = "search_recent"
    /\ cqry = ""
    /\ attempt = 0
    /\ outs = <<>>
    /\ units = 0
    /\ result = PyNone
    /\ hit = FALSE
    /\ moved = FALSE

\* twitter_client.py 21-23: the client before setup_client runs
InitWrap ==
    /\ client = "None"
    /\ apc = "new"
    /\ via = "direct"
    /\ amax = 0
    /\ aret = NoReturn

\* event_engine.py 31
InitEvents ==
    /\ event_cache = [l \in {} |-> <<>>]
    /\ ev_op = NoEventOp

InitThreads ==
    /\ lock = 0
    /\ tpc = [t \in Threads |-> "idle"]
    /\ tend = [t \in Threads |-> "search_recent"]
    /\ tcur = [t \in Threads |-> 0]
    /\ tret = [t \in Threads |-> "none"]

\* no request thread is inside _cache_events
InitRange ==
    /\ rpc = [t \in Fetchers |-> "idle"]
    /\ rkey = [t \in Fetchers |-> NoKey]
    /\ rold = [t \in Fetchers |-> NoKey]
    /\ rbase = event_cache

Init ==
    /\ now = 0
    /\ rate_limits = setup_default_limits
    /\ op = OtherOp
    /\ uop = NoTrackerOp
    /\ qlog = [e \in Tracked |-> "fresh"]
    /\ InitThreads
    /\ InitCache
    /\ InitCall
    /\ InitWrap
    /\ InitEvents
    /\ InitRange

Tick ==
    /\ now < MaxTime
    /\ now' = now + 1
    /\ op' = OtherOp
    /\ cop' = NoCacheOp
    /\ uop' = NoTrackerOp
    /\ UNCHANGED <<rate_limits, threadVars, cache, callVars, wrapVars, eventVars, rangeVars, qlog>>

----------------------------------------------------------------------------
(* Sequential use of the tracker: each call is one critical section *)

DoCheckRateLimit(e) ==
    LET r == CheckRateLimit(rate_limits, e, now)
    IN  /\ rate_limits' = r.limits
        /\ op' = [name |-> "check", endpoint |-> e, ok |-> r.ok]
        /\ uop' = NoTrackerOp
        /\ UNCHANGED <<wrapVars, eventVars, rangeVars, qlog, now, threadVars, cacheVars, callVars>>

DoUpdateFromHeaders(e, h) ==
    /\ rate_limits' = UpdateFromHeaders(rate_limits, e, h).limits
    /\ op' = OtherOp
    /\ UNCHANGED <<wrapVars, eventVars, rangeVars, qlog, uop, now, threadVars, cacheVars, callVars>>

NextQuota ==
    \/ Tick
    \/ \E e \in Endpoints : DoCheckRateLimit(e)
    \/ \E e \in Endpoints : \E h \in ParsedHeaderDicts(now) : DoUpdateFromHeaders(e, h)

SpecQuota == Init /\ [][NextQuota]_vars

----------------------------------------------------------------------------
(* The tracker with upstream metadata of every shape, and its wait hint *)

\* the endpoints update_from_headers is called for: a tracked one and one
\* without an entry
UpdatedEndpoints == {"search_recent", "lists"}

\* update_from_headers, lines 53-69, as one critical section; a ValueError
\* of int() leaves through the `with`
UpdateWith(e, h) ==
    \E u \in {UpdateFromHeaders(rate_limits, e, h)} :
        /\ rate_limits' = u.limits
        /\ op' = OtherOp
        /\ uop' = [name |-> "update", endpoint |-> e, headers |-> h,
                   raised |-> u.raised, ret |-> 0]
        /\ UNCHANGED <<now, threadVars, cacheVars, callVars, wrapVars, eventVars,
                       rangeVars, qlog>>

\* get_wait_time, lines 71-83
DoGetWaitTime(e) ==
    /\ op' = OtherOp
    /\ uop' = [name |-> "wait", endpoint |-> e, headers |-> NoHeaders,
               raised |-> FALSE, ret |-> get_wait_time(rate_limits, e, now)]
    /\ UNCHANGED <<now, rate_limits, threadVars, cacheVars, callVars, wrapVars,
                   eventVars, rangeVars, qlog>>

NextTracker ==
    \/ Tick
    \/ \E e \in Endpoints : DoCheckRateLimit(e)
    \/ \E e \in UpdatedEndpoints : \E h \in MetadataDicts(now) : UpdateWith(e, h)
    \/ \E e \in Endpoints : DoGetWaitTime(e)

SpecTracker == Init /\ [][NextTracker]_vars

----------------------------------------------------------------------------
(* The tracker under checks that keep coming while time keeps passing, with *)
(* no update_from_headers after the start.  Beyond MaxTime the origin of the clock moves on *)
(* with the time: `now` stays and every stored instant is one tick nearer;  *)
(* an instant in the past stays in the past.                                *)

\* the reset instants seen one tick later from a clock that stands at MaxTime
Nearer(rl) ==
    [e \in DOMAIN rl |->
        [rl[e] EXCEPT !.reset_time = IF @ = None THEN None ELSE Max(0, @ - 1)]]

\* one tick of time passes
TimePasses ==
    /\ IF now < MaxTime
       THEN now' = now + 1 /\ UNCHANGED rate_limits
       ELSE rate_limits' = Nearer(rate_limits) /\ UNCHANGED now
    /\ op' = OtherOp
    /\ UNCHANGED <<uop, qlog, threadVars, cacheVars, callVars, wrapVars, eventVars,
                   rangeVars>>

\* what a check adds to the record of an endpoint: a denial, or a grant that
\* follows a denial
Logged(was, ok) ==
    IF ~ok THEN "denied" ELSE IF was = "denied" THEN "recovered" ELSE was

\* check_rate_limit on a tracked endpoint, lines 33-51
LiveCheck(e) ==
    \E r \in {CheckRateLimit(rate_limits, e, now)} :
        /\ rate_limits' = r.limits
        /\ op' = [name |-> "check", endpoint |-> e, ok |-> r.ok]
        /\ qlog' = [qlog EXCEPT ![e] = Logged(@, r.ok)]
        /\ UNCHANGED <<now, uop, threadVars, cacheVars, callVars, wrapVars, eventVars,
                       rangeVars>>

NextLive ==
    \/ TimePasses
    \/ \E e \in Tracked : LiveCheck(e)

\* the tracker as constructed, or as one update_from_headers left it
StartLimits ==
    {setup_default_limits} \cup
    { UpdateFromHeaders(setup_default_limits, e, h).limits :
          e \in Tracked, h \in MetadataDicts(0) }

InitLive ==
    /\ now = 0
    /\ rate_limits \in StartLimits
    /\ op = OtherOp
    /\ uop = NoTrackerOp
    /\ qlog = [e \in Tracked |-> "fresh"]
    /\ InitThreads
    /\ InitCache
    /\ InitCall
    /\ InitWrap
    /\ InitEvents
    /\ InitRange

\* time keeps advancing and each endpoint keeps being checked
SpecLive ==
    /\ InitLive
    /\ [][NextLive]_vars
    /\ WF_vars(TimePasses)
    /\ \A e \in Tracked : WF_vars(LiveCheck(e))

----------------------------------------------------------------------------
(* Direct use of the response cache *)

DoCacheGet(k) ==
    LET r == CacheGet(cache, k, now)
    IN  /\ cache' = r.cache
        /\ cop' = [name |-> "get", key |-> k, ret |-> r.ret, evicted |-> r.evicted]
        /\ UNCHANGED <<wrapVars, eventVars, rangeVars, qlog, uop, now, quotaVars, threadVars, callVars>>

DoCacheSet(k, v) ==
    /\ cache' = CacheSet(cache, k, v, now)
    /\ cop' = [name |-> "set", key |-> k, ret |-> v, evicted |-> FALSE]
    /\ UNCHANGED <<wrapVars, eventVars, rangeVars, qlog, uop, now, quotaVars, threadVars, callVars>>

DoClearExpired ==
    /\ cache' = ClearExpired(cache, now)
    /\ cop' = [name |-> "clear_expired", key |-> "", ret |-> PyNone,
               evicted |-> ClearExpired(cache, now) # cache]
    /\ UNCHANGED <<wrapVars, eventVars, rangeVars, qlog, uop, now, quotaVars, threadVars, callVars>>

NextCache ==
    \/ Tick
    \/ \E k \in CacheKeys : DoCacheGet(k)
    \/ \E k \in CacheKeys : \E v \in CacheValues : DoCacheSet(k, v)
    \/ DoClearExpired

SpecCache == Init /\ [][NextCache]_vars

----------------------------------------------------------------------------
(* Concurrent check_rate_limit: each thread takes the lock, loads           *)
(* limit_info['remaining'] (after the reset), then stores and returns       *)

LockFreeMutNoLock == TRUE
LockFree == lock = 0

\* `with self.lock:` entered by a thread that has not called yet
ThreadEnter(t, e) ==
    /\ tpc[t] = "idle"
    /\ tret[t] = "none"
    /\ LockFree
    /\ lock' = t
    /\ tpc' = [tpc EXCEPT ![t] = "locked"]
    /\ tend' = [tend EXCEPT ![t] = e]
    /\ UNCHANGED <<wrapVars, eventVars, rangeVars, qlog, uop, now, quotaVars, tcur, tret, cacheVars, callVars>>

\* lines 36-45: the untracked return, the reset, the load of remaining
ThreadLoad(t) ==
    /\ tpc[t] = "locked"
    /\ IF tend[t] \notin DOMAIN rate_limits
       THEN /\ tret' = [tret EXCEPT ![t] = "true"]
            /\ tpc' = [tpc EXCEPT ![t] = "idle"]
            /\ lock' = 0
            /\ UNCHANGED <<rate_limits, tcur>>
       ELSE LET mid == ApplyReset(rate_limits[tend[t]], now)
            IN  /\ rate_limits' = [rate_limits EXCEPT ![tend[t]] = mid]
                /\ tcur' = [tcur EXCEPT ![t] = mid.remaining]
                /\ tpc' = [tpc EXCEPT ![t] = "loaded"]
                /\ UNCHANGED <<lock, tret>>
    /\ UNCHANGED <<wrapVars, eventVars, rangeVars, qlog, uop, now, op, tend, cacheVars, callVars>>

\* lines 46-51: the store, the return and the release of the lock
ThreadStore(t) ==
    /\ tpc[t] = "loaded"
    /\ rate_limits' = [rate_limits EXCEPT
                          ![tend[t]] = Consume(rate_limits[tend[t]], tcur[t], now)]
    /\ tret' = [tret EXCEPT ![t] = IF Permit(tcur[t]) THEN "true" ELSE "false"]
    /\ tpc' = [tpc EXCEPT ![t] = "idle"]
    /\ lock' = 0
    /\ UNCHANGED <<wrapVars, eventVars, rangeVars, qlog, uop, now, op, tend, tcur, cacheVars, callVars>>

NextConc ==
    \/ \E t \in Threads : \E e \in Endpoints : ThreadEnter(t, e)
    \/ \E t \in Threads : ThreadLoad(t)
    \/ \E t \in Threads : ThreadStore(t)

SpecConc == Init /\ [][NextConc]_vars

----------------------------------------------------------------------------
(* One call of make_request_with_retry, a step per shared-state access or   *)
(* sleep, and the other requests of the process, which reach the shared     *)
(* tracker and cache through the same locked operations at any moment       *)

\* the call begins: attempt = 0
CallStart(e, q) ==
    /\ cpc \in {"idle", "done", "raised"}
    /\ apc # "calling"
    /\ cpc' = "check"
    /\ cend' = e
    /\ cqry' = q
    /\ attempt' = 0
    /\ outs' = <<>>
    /\ units' = 0
    /\ result' = PyNone
    /\ hit' = FALSE
    /\ moved' = FALSE
    /\ UNCHANGED <<wrapVars, eventVars, rangeVars, qlog, uop, now, quotaVars, threadVars, cacheVars>>

\* lines 52-58: check_rate_limit; a denied caller sleeps before going on
CallCheck ==
    /\ cpc = "check"
    /\ LET r == CheckRateLimit(rate_limits, cend, now)
       IN  /\ rate_limits' = r.limits
           /\ units' = units + r.used
           /\ moved' = (r.limits # rate_limits)
           /\ cpc' = AfterCheck(r.ok)
    /\ UNCHANGED <<wrapVars, eventVars, rangeVars, qlog, uop, now, op, threadVars, cacheVars, cend, cqry, attempt, outs, result, hit>>

\* line 58: the sleep of a denied caller ends
CallWake ==
    /\ cpc = "wait"
    /\ cpc' = "lookup"
    /\ UNCHANGED <<wrapVars, eventVars, rangeVars, qlog, uop, now, quotaVars, threadVars, cacheVars, cend, cqry, attempt, outs,
                   units, result, hit, moved>>

\* lines 62-70: the cache key and the lookup
CallLookup ==
    /\ cpc = "lookup"
    /\ LET key == CacheKeyOf(cend, cqry)
           r == CacheGet(cache, key, now)
       IN  IF key # ""
           THEN /\ cache' = r.cache
                /\ IF Serves(r.ret)
                   THEN /\ cpc' = "done"
                        /\ result' = r.ret
                        /\ hit' = TRUE
                   ELSE /\ cpc' = "invoke"
                        /\ UNCHANGED <<result, hit>>
           ELSE /\ cpc' = "invoke"
                /\ UNCHANGED <<cache, result, hit>>
    /\ UNCHANGED <<wrapVars, eventVars, rangeVars, qlog, uop, now, quotaVars, threadVars, cop, cend, cqry, attempt, outs, units, moved>>

\* what an exception of the given kind leads to (lines 86-111)
Except(kind) ==
    IF ~Handled(kind)
    THEN /\ cpc' = "raised"
         /\ UNCHANGED result
    ELSE IF Retries(kind, attempt)
         THEN /\ cpc' = "backoff"
              /\ UNCHANGED result
         ELSE /\ cpc' = "done"
              /\ result' = PyNone

\* line 74: request_func raises
CallInvokeRaises(kind) ==
    /\ cpc = "invoke"
    /\ outs' = Append(outs, kind)
    /\ Except(kind)
    /\ UNCHANGED <<wrapVars, eventVars, rangeVars, qlog, uop, now, quotaVars, threadVars, cacheVars, cend, cqry, attempt, units, hit, moved>>

\* lines 74-78: request_func returns r; update_from_headers when r has headers,
\* whose ValueError is caught at line 104
CallInvokeReturns(r) ==
    /\ cpc = "invoke"
    /\ outs' = Append(outs, "ok")
    /\ IF r.has_headers
       THEN LET u == UpdateFromHeaders(rate_limits, cend, r.headers)
            IN  /\ rate_limits' = u.limits
                /\ IF u.raised
                   THEN Except("other")
                   ELSE /\ cpc' = "store"
                        /\ result' = r
       ELSE /\ cpc' = "store"
            /\ result' = r
            /\ UNCHANGED rate_limits
    /\ moved' = (moved \/ rate_limits' # rate_limits)
    /\ UNCHANGED <<wrapVars, eventVars, rangeVars, qlog, uop, now, op, threadVars, cacheVars, cend, cqry, attempt, units, hit>>

\* lines 81-84: the store of the response and the return
CallStore ==
    /\ cpc = "store"
    /\ LET key == CacheKeyOf(cend, cqry)
       IN  cache' = IF Stores(key, result)
                    THEN CacheSet(cache, key, result, now)
                    ELSE cache
    /\ cpc' = "done"
    /\ UNCHANGED <<wrapVars, eventVars, rangeVars, qlog, uop, now, quotaVars, threadVars, cop, cend, cqry, attempt, outs, units,
                   result, hit, moved>>

\* lines 95 and 109: the backoff sleep ends and the loop takes the next attempt
CallRetryMutNoCheck ==
    /\ cpc = "backoff"
    /\ attempt' = attempt + 1
    /\ moved' = FALSE
    /\ cpc' = "lookup"
    /\ UNCHANGED <<wrapVars, eventVars, rangeVars, qlog, uop, now, quotaVars, threadVars,
                   cacheVars, cend, cqry, outs, units, result, hit>>
CallRetry ==
    /\ cpc = "backoff"
    /\ attempt' = attempt + 1
    /\ moved' = FALSE
    /\ cpc' = "check"
    /\ UNCHANGED <<wrapVars, eventVars, rangeVars, qlog, uop, now, quotaVars, threadVars, cacheVars, cend, cqry, outs, units,
                   result, hit>>

\* another request to the same endpoint runs check_rate_limit (line 52)
OtherCheck(e) ==
    /\ rate_limits' = CheckRateLimit(rate_limits, e, now).limits
    /\ UNCHANGED <<wrapVars, eventVars, rangeVars, qlog, uop, now, op, threadVars, cacheVars, callVars>>

\* another request to the same endpoint updates the tracker (line 78)
OtherUpdate(e, h) ==
    /\ rate_limits' = UpdateFromHeaders(rate_limits, e, h).limits
    /\ UNCHANGED <<wrapVars, eventVars, rangeVars, qlog, uop, now, op, threadVars, cacheVars, callVars>>

\* another request looks its key up (line 67)
OtherLookup(k) ==
    /\ cache' = CacheGet(cache, k, now).cache
    /\ UNCHANGED <<wrapVars, eventVars, rangeVars, qlog, uop, now, quotaVars, threadVars, cop, callVars>>

\* another request stores its response (line 82)
OtherStore(k, r) ==
    /\ Stores(k, r)
    /\ cache' = CacheSet(cache, k, r, now)
    /\ UNCHANGED <<wrapVars, eventVars, rangeVars, qlog, uop, now, quotaVars, threadVars, cop, callVars>>

NextCall ==
    \/ Tick
    \/ \E e \in CallEndpoints : \E q \in CallQueries : CallStart(e, q)
    \/ CallCheck
    \/ CallWake
    \/ CallLookup
    \/ \E kind \in Raises : CallInvokeRaises(kind)
    \/ \E r \in CallResponses : CallInvokeReturns(r)
    \/ CallStore
    \/ CallRetry
    \/ OtherCheck(cend)
    \/ \E r \in CallResponses : r.has_headers /\ OtherUpdate(cend, r.headers)
    \/ \E q \in CallQueries \ {""} : OtherLookup(CacheKey(q))
    \/ \E q \in CallQueries \ {""} : \E r \in Storable : OtherStore(CacheKey(q), r)

SpecCall == Init /\ [][NextCall]_vars

----------------------------------------------------------------------------
(* The discovery operations: setup_client, search_recent_tweets_safe and    *)
(* discover_attendees around the call above, and discover_events            *)

\* twitter_client.py 24-41: the constructor ends with setup_client, whose
\* failure leaves client None
SetupClient(ok) ==
    /\ apc = "new"
    /\ client' = IF ok THEN "tweepy" ELSE "None"
    /\ apc' = "idle"
    /\ UNCHANGED <<now, quotaVars, threadVars, cacheVars, callVars, via, amax, aret,
                   eventVars, rangeVars, qlog, uop>>

\* make_request_with_retry('search_recent', ..., query=q) is entered
EnterSearch(q) ==
    /\ cpc' = "check"
    /\ cend' = "search_recent"
    /\ cqry' = q
    /\ attempt' = 0
    /\ outs' = <<>>
    /\ units' = 0
    /\ result' = PyNone
    /\ hit' = FALSE
    /\ moved' = FALSE

\* twitter_client.py 115-127: search_recent_tweets_safe called by itself
SearchStart(q) ==
    /\ apc \in {"idle", "done"}
    /\ cpc \in {"idle", "done", "raised"}
    /\ via' = "search"
    /\ IF BindsSearch(client)
       THEN /\ apc' = "calling"
            /\ aret' = NoReturn
            /\ EnterSearch(q)
       ELSE /\ apc' = "done"
            /\ aret' = Response(PyNone)
            /\ UNCHANGED callVars
    /\ UNCHANGED <<now, quotaVars, threadVars, cacheVars, client, amax, eventVars, rangeVars, qlog, uop>>

\* attendee_engine.py 37-51 and 90-108: discover_attendees up to the search
AttendStart(name, m) ==
    /\ apc \in {"idle", "done"}
    /\ cpc \in {"idle", "done", "raised"}
    /\ via' = "attendees"
    /\ amax' = m
    /\ IF ~is_operational(client) \/ build_single_query(name) = ""
       THEN /\ apc' = "done"
            /\ aret' = Attendees(EmptyResult)
            /\ UNCHANGED callVars
       ELSE IF BindsSearch(client)
            THEN /\ apc' = "calling"
                 /\ aret' = NoReturn
                 /\ EnterSearch(build_single_query(name))
            ELSE /\ apc' = "done"
                 /\ aret' = Attendees(AttendeesOf(PyNone, m))
                 /\ UNCHANGED callVars
    /\ UNCHANGED <<now, quotaVars, threadVars, cacheVars, client, eventVars, rangeVars, qlog, uop>>

\* twitter_client.py 121-130 and attendee_engine.py 54-71, 110-141: the call
\* is over; an exception out of it is taken by line 128
WrapReturn ==
    /\ apc = "calling"
    /\ cpc \in {"done", "raised"}
    /\ LET r == IF cpc = "raised" THEN PyNone ELSE result
       IN  aret' = IF via = "search" THEN Response(r) ELSE Attendees(AttendeesOf(r, amax))
    /\ apc' = "done"
    /\ UNCHANGED <<now, quotaVars, threadVars, cacheVars, callVars, client, via, amax,
                   eventVars, rangeVars, qlog, uop>>

\* event_engine.py 33-72
DiscoverEvents(q, m, up) ==
    \E r \in {discover_events(event_cache, q.location, q.start_date, q.end_date, m, up)} :
        /\ event_cache' = r.cache
        /\ ev_op' = [name |-> "discover", query |-> q, max_results |-> m, ok |-> up.ok,
                     cached |-> r.cached, asked |-> r.asked, fresh |-> r.fresh,
                     caught |-> r.caught, ret |-> r.ret,
                     dropped |-> { KeysOf(event_cache, q.location)[i] :
                                     i \in 1..Len(KeysOf(event_cache, q.location)) }
                                 \ { KeysOf(r.cache, q.location)[i] :
                                       i \in 1..Len(KeysOf(r.cache, q.location)) }]
        /\ UNCHANGED <<now, quotaVars, threadVars, cacheVars, callVars, wrapVars,
                       rangeVars, qlog, uop>>

\* app.py 72-98: the handler, which runs to its end before the event loop
\* takes another request
ApiDiscoverEvents(q, m, up) ==
    /\ apc # "calling"
    /\ DiscoverEvents(q, ClampEvents(m), up)

NextEvents ==
    \E q \in EventQueries : \E m \in EventLimits : \E up \in Upstreams :
        ApiDiscoverEvents(q, m, up)

SpecEvents == Init /\ [][NextEvents]_vars

\* the event requests made next to the attendee requests
ApiEventQueries == {Query("NYC", 0, 0), Query("NYC", Unparseable, 1)}
ApiUpstreams == {UpstreamError, [ok |-> TRUE, events |-> <<Raw("Expo", Midnight(0))>>]}

NextDiscover ==
    \/ \E ok \in BOOLEAN : SetupClient(ok)
    \/ \E q \in SearchQueries : SearchStart(q)
    \/ \E name \in EventNames : \E m \in AttendeeLimits : AttendStart(name, m)
    \/ WrapReturn
    \/ CallCheck
    \/ CallWake
    \/ CallLookup
    \/ \E kind \in Raises : CallInvokeRaises(kind)
    \/ \E r \in CallResponses : CallInvokeReturns(r)
    \/ CallStore
    \/ CallRetry
    \/ \E q \in ApiEventQueries : \E up \in ApiUpstreams : ApiDiscoverEvents(q, 1, up)

SpecDiscover == Init /\ [][NextDiscover]_vars

----------------------------------------------------------------------------
(* Concurrent _cache_events: request threads that have fetched new events   *)
(* for RangeLocation run lines 108-120 a dict operation at a time.  The     *)
(* engine has no lock.  The threads come in batches: a new batch begins     *)
(* when every thread of the last one has returned.                          *)

otherVars == <<now, quotaVars, threadVars, cacheVars, callVars, wrapVars, ev_op, uop,
               qlog>>

\* line 58: discover_events calls _cache_events with the events it fetched
RangeStart(t, k) ==
    /\ rpc[t] = "idle"
    /\ rpc' = [rpc EXCEPT ![t] = "test"]
    /\ rkey' = [rkey EXCEPT ![t] = k]
    /\ UNCHANGED <<otherVars, event_cache, rold, rbase>>

\* line 108: `if location not in self.event_cache`
RangeTest(t) ==
    /\ rpc[t] = "test"
    /\ rpc' = [rpc EXCEPT ![t] =
                  IF RangeLocation \notin DOMAIN event_cache THEN "create" ELSE "put"]
    /\ UNCHANGED <<otherVars, event_cache, rkey, rold, rbase>>

\* line 109
RangeCreate(t) ==
    /\ rpc[t] = "create"
    /\ event_cache' = Created(event_cache, RangeLocation)
    /\ rpc' = [rpc EXCEPT ![t] = "put"]
    /\ UNCHANGED <<otherVars, rkey, rold, rbase>>

\* line 112
RangePut(t) ==
    /\ rpc[t] = "put"
    /\ event_cache' = [event_cache EXCEPT
                          ![RangeLocation] = Put(@, rkey[t], FetchedFor(rkey[t]))]
    /\ rpc' = [rpc EXCEPT ![t] = "len"]
    /\ UNCHANGED <<otherVars, rkey, rold, rbase>>

\* line 117
RangeLen(t) ==
    /\ rpc[t] = "len"
    /\ rpc' = [rpc EXCEPT ![t] =
                  IF TooMany(event_cache[RangeLocation]) THEN "pick" ELSE "done"]
    /\ UNCHANGED <<otherVars, event_cache, rkey, rold, rbase>>

\* line 119: next(iter(...)) raises StopIteration on an empty dict; line 70
\* takes it and discover_events returns []
RangePick(t) ==
    /\ rpc[t] = "pick"
    /\ IF event_cache[RangeLocation] = <<>>
       THEN /\ rpc' = [rpc EXCEPT ![t] = "failed"]
            /\ UNCHANGED rold
       ELSE /\ rold' = [rold EXCEPT ![t] = Head(event_cache[RangeLocation]).key]
            /\ rpc' = [rpc EXCEPT ![t] = "del"]
    /\ UNCHANGED <<otherVars, event_cache, rkey, rbase>>

\* line 120: del raises KeyError for a key the dict holds no more; line 70
\* takes it and discover_events returns []
RangeDel(t) ==
    /\ rpc[t] = "del"
    /\ IF \E i \in 1..Len(event_cache[RangeLocation]) :
              event_cache[RangeLocation][i].key = rold[t]
       THEN /\ event_cache' = [event_cache EXCEPT ![RangeLocation] = Without(@, rold[t])]
            /\ rpc' = [rpc EXCEPT ![t] = "done"]
       ELSE /\ rpc' = [rpc EXCEPT ![t] = "failed"]
            /\ UNCHANGED event_cache
    /\ rold' = [rold EXCEPT ![t] = NoKey]
    /\ UNCHANGED <<otherVars, rkey, rbase>>

\* every thread of the batch has returned; the next requests arrive
RangeBatch ==
    /\ \A t \in Fetchers : rpc[t] \in {"idle", "done", "failed"}
    /\ \E t \in Fetchers : rpc[t] # "idle"
    /\ rpc' = [t \in Fetchers |-> "idle"]
    /\ rkey' = [t \in Fetchers |-> NoKey]
    /\ rbase' = event_cache
    /\ UNCHANGED <<otherVars, event_cache, rold>>

NextRange ==
    \/ \E t \in Fetchers : \E k \in RangeKeys : RangeStart(t, k)
    \/ \E t \in Fetchers : RangeTest(t)
    \/ \E t \in Fetchers : RangeCreate(t)
    \/ \E t \in Fetchers : RangePut(t)
    \/ \E t \in Fetchers : RangeLen(t)
    \/ \E t \in Fetchers : RangePick(t)
    \/ \E t \in Fetchers : RangeDel(t)
    \/ RangeBatch

SpecRange == Init /\ [][NextRange]_vars

----------------------------------------------------------------------------
(* Properties of the quota tracker *)


\* C3: in every reachable state of the tracker every tracked endpoint has
\* 0 <= remaining <= limit.
C3_RemainingWithinLimit ==
    \A e \in Tracked :
        /\ 0 <= rate_limits[e].remaining
        /\ rate_limits[e].remaining <= rate_limits[e].limit

\* C4: a check_rate_limit made at any time now >= resetAt (equality included)
\* on an endpoint whose resetAt is set resets remaining to limit and clears
\* resetAt before deciding, so it is granted when limit > 0.
C4_ResetAtOrAfterResetAt ==
    [][\A e \in Tracked :
        ( /\ op'.name = "check"
          /\ op'.endpoint = e
          /\ rate_limits[e].reset_time # None
          /\ now >= rate_limits[e].reset_time
          /\ rate_limits[e].limit > 0 )
        => /\ op'.ok
           /\ rate_limits'[e].remaining = rate_limits[e].limit - 1
           /\ rate_limits'[e].reset_time = None]_vars

\* C5: N threads run check_rate_limit concurrently on an endpoint whose
\* remaining is k (here k = limit, the value at construction; the clock stands
\* still, so no reset falls due, and no header update runs): never more than k
\* calls are granted, and once n calls have returned exactly min(n, k) of them
\* returned true and remaining is max(0, k - n).
C5_ConcurrentGrants ==
    \A e \in Tracked :
        LET returned == { t \in Threads : tret[t] # "none" /\ tend[t] = e }
            yes == { t \in returned : tret[t] = "true" }
            k == rate_limits[e].limit
        IN  /\ Cardinality(yes) <= k
            /\ (\A t \in Threads : tpc[t] = "idle")
                => /\ Cardinality(yes) = Min(Cardinality(returned), k)
                   /\ rate_limits[e].remaining = Max(0, k - Cardinality(returned))

\* every thread has called check_rate_limit('search_recent'); more threads than
\* quota units, so one of them was denied
C5_Witness ==
    /\ \A t \in Threads : tret[t] # "none" /\ tend[t] = "search_recent"
    /\ \E t \in Threads : tret[t] = "false"
    /\ \E t \in Threads : tret[t] = "true"

\* C8: check_rate_limit on a tracked endpoint, after the due reset is applied:
\* with remaining > 0 it decrements remaining by exactly 1 and returns true;
\* otherwise it returns false, leaves remaining unchanged and sets resetAt to
\* now + window only when resetAt is unset.
C8_CheckDecision ==
    [][\A e \in Tracked :
        (op'.name = "check" /\ op'.endpoint = e) =>
        LET pre == rate_limits[e]
            due == pre.reset_time # None /\ now > pre.reset_time
            rem == IF due THEN pre.limit ELSE pre.remaining
            rst == IF due THEN None ELSE pre.reset_time
            post == rate_limits'[e]
        IN  IF rem > 0
            THEN /\ op'.ok
                 /\ post.remaining = rem - 1
            ELSE /\ ~op'.ok
                 /\ post.remaining = rem
                 /\ post.reset_time = IF rst = None THEN now + pre.window_minutes
                                      ELSE rst]_vars

\* a check denied while a reset was already scheduled: resetAt is the present
\* instant, not one window ahead of it
C8_Witness ==
    /\ op.name = "check"
    /\ op.endpoint = "search_recent"
    /\ ~op.ok
    /\ rate_limits["search_recent"].remaining = 0
    /\ rate_limits["search_recent"].reset_time = now

----------------------------------------------------------------------------
(* Properties of the response cache *)

\* C7: get(key) returns absent and removes the entry when now - storedAt >= ttl
\* for the entry's latest store time, and returns the stored value when
\* now - storedAt < ttl; set(key, value) overwrites unconditionally and restarts
\* the TTL at the time of the set.
C7_CacheTtl ==
    [][/\ \A k \in CacheKeys :
            (cop'.name = "get" /\ cop'.key = k /\ k \in DOMAIN cache) =>
                IF now - cache[k].timestamp >= TtlTicks
                THEN cop'.ret = PyNone /\ k \notin DOMAIN cache'
                ELSE cop'.ret = cache[k].data /\ cache' = cache
       /\ \A k \in CacheKeys :
            (cop'.name = "set" /\ cop'.key = k) =>
                /\ DOMAIN cache' = DOMAIN cache \cup {k}
                /\ cache'[k] = [data |-> cop'.ret, timestamp |-> now]
                /\ \A x \in DOMAIN cache \ {k} : cache'[x] = cache[x]]_vars

\* a get that found its entry expired, removed it and returned absent
C7_Witness ==
    /\ cop.name = "get"
    /\ cop.evicted
    /\ cop.ret = PyNone
    /\ cop.key \notin DOMAIN cache
    /\ now >= TtlTicks

----------------------------------------------------------------------------
(* Properties of the guarded caller *)

IsBad(i) == outs[i] = "bad"

\* C1: one call of make_request_with_retry invokes the supplied function at
\* most 2 times, whatever it raises or returns and whatever the other requests
\* do to the quota and the cache.
C1_AtMostTwoInvocations == Len(outs) <= 2

\* a call that has returned after two invocations
C1_Witness == cpc = "done" /\ Len(outs) = 2

\* C2 as claimed: whenever request_func raises BadRequest, on whichever attempt,
\* the call returns failure with exactly 1 invocation in total.
C2_BadRequestOneInvocation ==
    (\E i \in 1..Len(outs) : IsBad(i)) =>
        /\ cpc = "done"
        /\ result = PyNone
        /\ Len(outs) = 1

\* C2 as amended: a BadRequest ends the call at once with failure, no
\* invocation follows it; raised by the first attempt it is the call's only
\* invocation, raised by the retry attempt it is the second.
C2_BadRequestNoRetry ==
    \A i \in 1..Len(outs) : IsBad(i) =>
        /\ i = Len(outs)
        /\ cpc = "done"
        /\ result = PyNone
        /\ ~hit
        /\ Len(outs) = attempt + 1

\* a call ended by a BadRequest on its first attempt
C2_Witness == cpc = "done" /\ outs = <<"bad">> /\ attempt = 0

\* C6 as claimed: a call that returns a cached value has made zero upstream
\* invocations and consumed exactly one quota unit.
C6_CacheHitOneUnit == hit => (Len(outs) = 0 /\ units = 1)

\* C6 as amended: a call that returns a cached value has made one upstream
\* invocation per earlier attempt and none on the attempt that found the value,
\* and has consumed at most one quota unit per attempt; so on the first attempt
\* zero invocations and at most one unit (none when the check was denied), on
\* the retry attempt one invocation and at most two units.
C6_CacheHitCost ==
    hit => /\ cpc = "done"
           /\ Len(outs) = attempt
           /\ units <= attempt + 1
           /\ attempt = 0 => (Len(outs) = 0 /\ units <= 1)

\* a first-attempt cache hit that cost one quota unit
C6_Witness == hit /\ attempt = 0 /\ units = 1 /\ outs = <<>> /\ Truthy(result)

\* C9: when the first invocation fails with TooManyRequests or another failure
\* that is no BadRequest, the caller sleeps and takes exactly one more attempt;
\* when the second invocation fails too the call returns None; there is never a
\* third attempt.
C9_SingleRetry ==
    /\ attempt <= 1
    /\ (Len(outs) >= 1 /\ outs[1] \in {"tmr", "other"}) =>
          /\ attempt = 0 => cpc = "backoff"
          /\ ~(cpc = "done" /\ attempt = 0)
    /\ (Len(outs) = 2 /\ outs[2] \in Raises) =>
          /\ cpc = "done"
          /\ attempt = 1
          /\ result = PyNone

\* a call whose two invocations both failed
C9_Witness ==
    cpc = "done" /\ attempt = 1 /\ outs = <<"tmr", "other">> /\ result = PyNone

StoreStep == cpc = "store" /\ cpc' = "done"
LookupStep == cpc = "lookup" /\ cpc' # "lookup"
KeyNow == CacheKeyOf(cend, cqry)

\* the lookup half of C10: a call whose key has a live entry returns the stored
\* value without invoking upstream
C10_LookupServes ==
    (LookupStep /\ KeyNow # "" /\ KeyNow \in DOMAIN cache
        /\ now - cache[KeyNow].timestamp < TtlTicks)
    => /\ cpc' = "done"
       /\ hit'
       /\ result' = cache[KeyNow].data
       /\ outs' = outs

C11_DeniedStillInvokes ==
    (cpc \in {"store", "backoff", "done"} /\ units < attempt + 1 /\ ~hit)
        => Len(outs) = attempt + 1

\* the single attempt of a call was denied its quota unit and still invoked
C11_Witness ==
    cpc = "done" /\ attempt = 0 /\ units = 0 /\ ~hit /\ outs = <<"ok">>

----------------------------------------------------------------------------
(* Properties of the discovery operations *)

LastRaised == outs # <<>> /\ outs[Len(outs)] \in Raises

C13_NonOperationalShortCircuit ==
    [][(client = "None" /\ apc # "calling" /\ apc' = "done" /\ via' = "attendees") =>
           /\ aret' = Attendees(<<>>)
           /\ rate_limits' = rate_limits
           /\ cache' = cache
           /\ outs' = outs
           /\ units' = units]_vars

\* such a request has returned, with the tracker and the cache as constructed
C13_Witness ==
    /\ client = "None" /\ apc = "done" /\ via = "attendees"
    /\ aret = Attendees(<<>>)
    /\ rate_limits = setup_default_limits
    /\ DOMAIN cache = {}

----------------------------------------------------------------------------
(* Properties of the range cache and of discover_events *)

Discovered == ev_op.name = "discover"
KeyOfQuery(q) == <<q.start_date, q.end_date>>
Elems(s) == { s[i] : i \in 1..Len(s) }

\* C14: with c cached hits for the query and max_results = m, the fetch
\* (_get_new_events_serpapi) is called once, for exactly max(0, m - c) events,
\* when that number is positive, and is not called when it is zero
C14_FetchesOnlyNeeded ==
    (Discovered /\ ~ev_op.caught) =>
        LET n == Max(0, ev_op.max_results - Len(ev_op.cached))
        IN  ev_op.asked = IF n > 0 THEN <<n>> ELSE <<>>

\* a partial hit: one event cached, two asked for, one fetched for
C14_Witness ==
    /\ Discovered
    /\ Len(ev_op.cached) = 1
    /\ ev_op.max_results = 2
    /\ ev_op.asked = <<1>>

\* C15: a location never keeps more than MaxRanges ranges, and a discovery that
\* stores a range under a new (start, end) pair while the location is full drops
\* the range stored first and keeps the others in their order
C15_BoundedOldestEvicted ==
    [][\A l \in DOMAIN event_cache' :
          /\ Len(event_cache'[l]) <= MaxRanges
          /\ ( /\ l = ev_op'.query.location
               /\ ev_op'.fresh # <<>>
               /\ Len(KeysOf(event_cache, l)) = MaxRanges
               /\ KeyOfQuery(ev_op'.query) \notin Elems(KeysOf(event_cache, l)) )
             => KeysOf(event_cache', l) =
                    Append(Tail(KeysOf(event_cache, l)), KeyOfQuery(ev_op'.query))]_vars

\* MaxRanges + 1 pairs have been stored for NYC: MaxRanges remain, the first is gone
C15_Witness ==
    /\ Discovered
    /\ ev_op.query.location = "NYC"
    /\ Len(KeysOf(event_cache, "NYC")) = MaxRanges
    /\ Cardinality(ev_op.dropped) = 1
    /\ KeyOfQuery(ev_op.query) = KeysOf(event_cache, "NYC")[MaxRanges]

\* the key of the duplicate test: the lower-cased, trimmed name and the date
NameDateKey(ev) == <<Strip(Lower(ev.event_name)), ev.exact_date>>

\* the place of the first event of a sequence that has the key of ev
FirstAt(all, ev) ==
    CHOOSE i \in 1..Len(all) :
        /\ NameDateKey(all[i]) = NameDateKey(ev)
        /\ \A j \in 1..(i - 1) : NameDateKey(all[j]) # NameDateKey(ev)

\* ret holds, in first-seen order and without a gap, the first instance of
\* keys of all, each key once
FirstSeenPrefix(all, ret) ==
    /\ \A i \in 1..Len(ret) :
          /\ \E j \in 1..Len(all) : NameDateKey(all[j]) = NameDateKey(ret[i])
          /\ ret[i] = all[FirstAt(all, ret[i])]
          /\ \A j \in 1..(FirstAt(all, ret[i]) - 1) :
                 \E k \in 1..(i - 1) : NameDateKey(ret[k]) = NameDateKey(all[j])
    /\ \A i, j \in 1..Len(ret) : i < j => NameDateKey(ret[i]) # NameDateKey(ret[j])

\* C16: the list discover_events returns has no two events with the same
\* (lower-cased trimmed name, date); it keeps, of the cached events followed by
\* the fetched ones, the first instance of each key in first-seen order, so a
\* cached event wins over a fetched event with its key
C16_NoDuplicatesFirstSeen ==
    Discovered => FirstSeenPrefix(ev_op.cached \o ev_op.fresh, ev_op.ret)

\* a cached and a fetched event share a key, differ, and the cached one is returned
C16_Witness ==
    /\ Discovered
    /\ \E i \in 1..Len(ev_op.cached) : \E j \in 1..Len(ev_op.fresh) :
          /\ NameDateKey(ev_op.cached[i]) = NameDateKey(ev_op.fresh[j])
          /\ ev_op.cached[i] # ev_op.fresh[j]
          /\ ev_op.cached[i] \in Elems(ev_op.ret)
          /\ ev_op.fresh[j] \notin Elems(ev_op.ret)

\* the events the stored ranges of the location of q hold for q: those of the
\* ranges that overlap [start_date, end_date], dated inside it
HitSet(c, q) ==
    IF q.location \notin DOMAIN c
    THEN {}
    ELSE UNION { { ev \in Elems(r.events) :
                     q.start_date <= ev.exact_date /\ ev.exact_date <= q.end_date } :
                 r \in { x \in Elems(c[q.location]) :
                           ~(x.key[2] < q.start_date \/ x.key[1] > q.end_date) } }

\* C17: the cached hits of a query are exactly the events of the stored ranges
\* of its location that overlap the query (a shared end day is an overlap) and
\* that are dated inside the query; other ranges and other locations give
\* nothing
C17_CachedHits ==
    [][(ev_op'.name = "discover" /\ Parses(ev_op'.query.start_date)) =>
           Elems(ev_op'.cached) = HitSet(event_cache, ev_op'.query)]_vars

\* NYC holds the range [0,1] alone and LA holds the same event; the query
\* [1,2] for NYC, which shares day 1 with the range, got the one event of NYC
C17_Witness ==
    /\ Discovered
    /\ ev_op.query = Query("NYC", 1, 2)
    /\ KeysOf(event_cache, "NYC") = << <<0, 1>> >>
    /\ KeysOf(event_cache, "LA") = << <<1, 1>> >>
    /\ ev_op.cached = <<Event("Gala", 1)>>

\* C18: discover_events never returns more than max(0, max_results) events
C18_AtMostMaxResults ==
    Discovered => Len(ev_op.ret) <= Max(0, ev_op.max_results)

\* C19: a fetch that fails (no answer from upstream, or a date it cannot
\* parse) counts as no new event: the range cache is left as it was, nothing
\* is raised, and the cached hits are returned, each key once (all of them, as
\* fewer than max_results were cached when a fetch is made)
C19_FailedFetch ==
    [][( /\ ev_op'.name = "discover"
         /\ ~ev_op'.ok \/ ~Parses(ev_op'.query.start_date)
         /\ ev_op'.asked # <<>> ) =>
           /\ event_cache' = event_cache
           /\ ev_op'.fresh = <<>>
           /\ FirstSeenPrefix(ev_op'.cached, ev_op'.ret)
           /\ \A i \in 1..Len(ev_op'.cached) :
                  \E k \in 1..Len(ev_op'.ret) :
                      NameDateKey(ev_op'.ret[k]) = NameDateKey(ev_op'.cached[i])
           /\ Len(ev_op'.ret) <= ev_op'.max_results]_vars

\* the fetch for the second event failed and the cached event was returned
C19_Witness ==
    /\ Discovered /\ ~ev_op.ok
    /\ ev_op.asked = <<1>>
    /\ ev_op.cached # <<>>
    /\ ev_op.ret = ev_op.cached

\* C20: every event stored under (location, start_date, end_date) is dated
\* inside [start_date, end_date]
C20_StoredInsideRange ==
    \A l \in DOMAIN event_cache : \A i \in 1..Len(event_cache[l]) :
        \A ev \in Elems(event_cache[l][i].events) :
            /\ event_cache[l][i].key[1] <= ev.exact_date
            /\ ev.exact_date <= event_cache[l][i].key[2]

\* the fetch for [0,1] met an entry dated after midnight of day 1 and stored
\* the other entry only
C20_Witness ==
    /\ Discovered /\ ev_op.ok
    /\ ev_op.query = Query("NYC", 0, 1)
    /\ ev_op.asked = <<2>>
    /\ ev_op.fresh = <<Event("Gala", 1)>>
    /\ \E i \in 1..Len(event_cache["NYC"]) :
          event_cache["NYC"][i] = [key |-> <<0, 1>>, events |-> ev_op.fresh]

----------------------------------------------------------------------------
(* Properties of concurrent fetches *)

\* the threads of the running batch
InBatch == { t \in Fetchers : rpc[t] # "idle" }

\* the orders the threads of a set can take one after the other
Orders(S) ==
    { o \in [1..Cardinality(S) -> S] :
        \A i, j \in 1..Cardinality(S) : i # j => o[i] # o[j] }

\* the cache after the _cache_events calls of the threads of an order, each
\* run as one step
RECURSIVE InOrder(_, _)
InOrder(c, order) ==
    IF order = <<>>
    THEN c
    ELSE InOrder(cache_events(c, RangeLocation, rkey[Head(order)][1],
                              rkey[Head(order)][2], FetchedFor(rkey[Head(order)])),
                 Tail(order))

\* C21: the insert and the eviction of _cache_events are one atomic step for
\* concurrent fetches of one location: no fetch fails on its eviction, and
\* when the fetches of a batch have returned the cache is what their
\* _cache_events calls give when run one after the other in some order (so no
\* inserted range is lost and no more than MaxRanges ranges are left)
C21_AtomicInsertEvict ==
    /\ \A t \in Fetchers : rpc[t] # "failed"
    /\ (\A t \in Fetchers : rpc[t] \in {"idle", "done"}) =>
           /\ event_cache \in { InOrder(rbase, o) : o \in Orders(InBatch) }
           /\ \A l \in DOMAIN event_cache : Len(event_cache[l]) <= MaxRanges

----------------------------------------------------------------------------
(* Properties of the tracker under upstream metadata, and of its wait hint *)

\* C22: update_from_headers stores the upstream value in each of limit,
\* remaining and resetAt whose header is present (for a header whose value is
\* no integer there is no value to store, and nothing is asked of its field),
\* leaves the fields without a header, window_minutes and every other endpoint
\* as they were, and changes nothing for an empty dict or an untracked endpoint
C22_UpdateFrame ==
    [][uop'.name = "update" =>
        LET e == uop'.endpoint
            h == uop'.headers
            has(k) == k \in DOMAIN h
            good(k) == has(k) /\ h[k] # Unparseable
        IN  IF e \notin Tracked \/ DOMAIN h = {}
            THEN rate_limits' = rate_limits
            ELSE /\ DOMAIN rate_limits' = DOMAIN rate_limits
                 /\ \A x \in Tracked \ {e} : rate_limits'[x] = rate_limits[x]
                 /\ rate_limits'[e].window_minutes = rate_limits[e].window_minutes
                 /\ good(HLimit) => rate_limits'[e].limit = h[HLimit]
                 /\ ~has(HLimit) => rate_limits'[e].limit = rate_limits[e].limit
                 /\ good(HRemaining) => rate_limits'[e].remaining = h[HRemaining]
                 /\ ~has(HRemaining) =>
                        rate_limits'[e].remaining = rate_limits[e].remaining
                 /\ good(HReset) => rate_limits'[e].reset_time = FromTimestamp(h[HReset])
                 /\ ~has(HReset) =>
                        rate_limits'[e].reset_time = rate_limits[e].reset_time]_vars

\* the time to the scheduled reset of a tracked endpoint, in seconds, not
\* below zero
UntilReset(e) == Max(0, TotalSeconds(rate_limits[e].reset_time - now))

\* C23 as claimed: get_wait_time returns, for any endpoint, max(0, resetAt -
\* now) when a reset is scheduled and the default 60 seconds when none is; it
\* is never negative and changes no quota state.
C23_WaitHintAnyEndpoint ==
    [][uop'.name = "wait" =>
        LET e == uop'.endpoint
            scheduled == e \in Tracked /\ rate_limits[e].reset_time # None
        IN  /\ uop'.ret = IF scheduled THEN UntilReset(e) ELSE DefaultWait
            /\ uop'.ret >= 0
            /\ rate_limits' = rate_limits]_vars

\* C23 as amended: for a tracked endpoint get_wait_time returns max(0, resetAt
\* - now) when a reset is scheduled and the default 60 seconds when none is;
\* for an endpoint without tracked quota it returns 0; it is never negative
\* and changes no quota state.
C23_WaitHint ==
    [][uop'.name = "wait" =>
        LET e == uop'.endpoint
        IN  /\ uop'.ret = IF e \notin Tracked
                          THEN 0
                          ELSE IF rate_limits[e].reset_time # None
                               THEN UntilReset(e)
                               ELSE DefaultWait
            /\ uop'.ret >= 0
            /\ rate_limits' = rate_limits]_vars

\* a wait hint asked for after the scheduled reset instant has passed: zero
C23_Witness ==
    /\ uop.name = "wait"
    /\ uop.endpoint = "search_recent"
    /\ rate_limits["search_recent"].reset_time # None
    /\ rate_limits["search_recent"].reset_time < now
    /\ uop.ret = 0

\* C24: check_rate_limit on an endpoint without tracked quota returns true,
\* whatever calls came before it and however exhausted the tracked endpoints
\* are, creates no entry and leaves every tracked endpoint as it was
C24_UntrackedAlwaysPermitted ==
    [][(op'.name = "check" /\ op'.endpoint \notin Tracked) =>
           /\ op'.ok
           /\ rate_limits' = rate_limits
           /\ DOMAIN rate_limits' = Tracked]_vars

\* the untracked endpoint was granted at the end of the clock, while the
\* tracked search endpoint was used up and waiting for its reset
C24_Witness ==
    /\ op.name = "check"
    /\ op.endpoint = "lists"
    /\ op.ok
    /\ now = MaxTime
    /\ rate_limits["search_recent"].remaining = 0
    /\ rate_limits["search_recent"].reset_time # None
    /\ "lists" \notin DOMAIN rate_limits

----------------------------------------------------------------------------
(* Properties of the sweep of the response cache *)

\* C25: clear_expired removes the entries with now - storedAt >= ttl, which
\* are the entries get would find expired, and no other; every live entry
\* keeps its value and its store time; a second sweep at the same instant
\* removes nothing
C25_SweepExpired ==
    [][cop'.name = "clear_expired" =>
        /\ DOMAIN cache' = { k \in DOMAIN cache : now - cache[k].timestamp < TtlTicks }
        /\ \A k \in DOMAIN cache : k \notin DOMAIN cache' <=> CacheGet(cache, k, now).evicted
        /\ \A k \in DOMAIN cache' : cache'[k] = cache[k]
        /\ ClearExpired(cache', now) = cache']_vars

\* a sweep that removed an entry and kept a live one stored before the sweep
C25_Witness ==
    /\ cop.name = "clear_expired"
    /\ cop.evicted
    /\ \E k \in CacheKeys : k \notin DOMAIN cache
    /\ \E k \in DOMAIN cache : cache[k].timestamp < now /\ Truthy(cache[k].data)

----------------------------------------------------------------------------
(* Properties of the guarded caller and the shared tracker *)

\* the running attempt has made its invocation
Invoked == Len(outs) = attempt + 1

CheckStep == cpc = "check" /\ cpc' # "check"
InvokeStep == cpc = "invoke" /\ cpc' # "invoke"

\* C26 as claimed: every upstream invocation made by the call comes with a
\* change of the quota state of its endpoint made by the same attempt.
C26_InvocationUpdatesQuota == Invoked => moved

\* C26 as amended: an attempt changes the quota state of its endpoint through
\* its check and through the metadata of its response, and through nothing
\* else.  A granted check takes one unit off remaining (counted from limit when
\* a reset was due).  A denied check, after which the attempt goes on to
\* invoke all the same, changes the state only when it schedules the reset,
\* that is when none was scheduled or the scheduled one was due.  The
\* invocation changes the state only when it returned a response that
\* carries metadata.
C26_QuotaEffect ==
    [][/\ CheckStep =>
            LET pre == rate_limits[cend]
                post == rate_limits'[cend]
            IN  /\ moved' <=> post # pre
                /\ \A x \in Tracked \ {cend} : rate_limits'[x] = rate_limits[x]
                /\ IF cpc' = "lookup"
                   THEN /\ post.remaining = ApplyReset(pre, now).remaining - 1
                        /\ units' = units + 1
                        /\ moved'
                   ELSE /\ units' = units
                        /\ post.remaining = 0
                        /\ (post = pre) <=> (pre.reset_time # None /\ ~ResetDue(pre, now))
       /\ InvokeStep =>
            /\ outs'[Len(outs')] \in Raises => rate_limits' = rate_limits
            /\ (cpc' = "store" /\ ~result'.has_headers) => rate_limits' = rate_limits
            /\ moved' <=> (moved \/ rate_limits' # rate_limits)
       /\ (~CheckStep /\ ~InvokeStep /\ cpc' # cpc) => rate_limits' = rate_limits]_vars

\* a call whose only attempt was denied with the reset already scheduled, and
\* whose invocation returned a response without metadata: invoked, and the
\* quota state untouched
C26_Witness ==
    /\ cpc = "done"
    /\ outs = <<"ok">>
    /\ result = Plain("r1")
    /\ units = 0
    /\ ~moved
    /\ rate_limits[cend].remaining = 0
    /\ rate_limits[cend].reset_time # None

\* an attempt begins: the first of a call, or the one after a backoff
AttemptStart == cpc # "check" /\ cpc' = "check"

\* C27: the call runs check_rate_limit once at the start of each attempt, and
\* each check takes one quota unit exactly when remaining (after a due reset)
\* is above zero; nothing else in the call takes a unit.  So the units of a
\* call are the attempts it started with quota available, at most 2.
C27_UnitsPerAttempt ==
    [][/\ attempt' <= max_retries
       /\ units' <= attempt' + 1
       /\ AttemptStart =>
            \/ attempt' = 0 /\ units' = 0
            \/ cpc = "backoff" /\ attempt' = attempt + 1 /\ units' = units
       /\ CheckStep =>
            /\ attempt' = attempt
            /\ units' = units +
                 (IF ApplyReset(rate_limits[cend], now).remaining > 0 THEN 1 ELSE 0)
       /\ (~CheckStep /\ ~AttemptStart) => units' = units
       /\ (cpc' \in {"lookup", "wait"} /\ cpc # cpc') => cpc \in {"check", "wait"}]_vars

\* the first attempt failed with TooManyRequests, the second was made, and
\* quota was there for both: two units
C27_Witness ==
    /\ cpc = "done"
    /\ attempt = 1
    /\ outs = <<"tmr", "ok">>
    /\ units = 2

\* C28: an invocation that returned a response is the last of its call,
\* whatever the metadata of the response: the call goes on to store and return
\* it
C28_ReturnedResponseIsFinal ==
    \A i \in 1..Len(outs) :
        outs[i] = "ok" => /\ i = Len(outs)
                          /\ cpc \in {"store", "done"}

----------------------------------------------------------------------------
(* Properties of what a fetch does to the range cache *)

\* the events a location holds under a (start, end) pair
StoredUnder(c, l, k) ==
    IF l \in DOMAIN c
    THEN UNION { Elems(c[l][i].events) : i \in { j \in 1..Len(c[l]) : c[l][j].key = k } }
    ELSE {}

\* C29: a discover_events call leaves under the (location, start, end) it was
\* made for every event stored there before, unless that range is the one it
\* evicted as the oldest of the location
C29_FetchKeepsStored ==
    [][ev_op'.name = "discover" =>
        LET l == ev_op'.query.location
            k == KeyOfQuery(ev_op'.query)
        IN  k \in Elems(KeysOf(event_cache, l)) =>
                \/ k \in ev_op'.dropped
                \/ StoredUnder(event_cache, l, k) \subseteq StoredUnder(event_cache', l, k)]_vars

\* the keys of the events of a sequence
KeysIn(evs) == { NameDateKey(evs[i]) : i \in 1..Len(evs) }

\* the fetch was called and brought as many events as asked for, their keys
\* different from each other and from those of the cached hits
FullDistinctFetch ==
    /\ ev_op.asked # <<>>
    /\ Len(ev_op.fresh) = ev_op.asked[1]
    /\ Cardinality(KeysIn(ev_op.fresh)) = Len(ev_op.fresh)
    /\ KeysIn(ev_op.fresh) \cap KeysIn(ev_op.cached) = {}

\* C30: for max_results = m >= 0, a discover_events call whose fetch brought
\* exactly the events asked for, new and distinct, returns exactly m events,
\* whatever the stored ranges of the location hold
C30_ExactlyMaxResults ==
    (Discovered /\ ev_op.max_results >= 0 /\ FullDistinctFetch) =>
        Len(ev_op.ret) = ev_op.max_results

----------------------------------------------------------------------------
(* Properties of the tracker over time *)

Exhausted(e) == rate_limits[e].limit > 0 /\ rate_limits[e].remaining = 0
Granted(e) == op = [name |-> "check", endpoint |-> e, ok |-> TRUE]

\* C31: exhaustion does not last.  While time passes and checks keep coming,
\* with no update_from_headers, a tracked endpoint with limit > 0 and
\* remaining = 0 is granted a later check: the denial that finds no reset
\* scheduled schedules it one window ahead, and a check made after the
\* scheduled instant is granted
C31_ExhaustionEnds ==
    /\ \A e \in Tracked : Exhausted(e) ~> Granted(e)
    /\ \A e \in Tracked : (qlog[e] = "denied") ~> (qlog[e] = "recovered")
    /\ [][\A e \in Tracked :
            (op'.name = "check" /\ op'.endpoint = e /\ op' # op) =>
                /\ (Exhausted(e) /\ rate_limits[e].reset_time = None) =>
                       /\ ~op'.ok
                       /\ rate_limits'[e].reset_time = now + rate_limits[e].window_minutes
                /\ (rate_limits[e].limit > 0 /\ rate_limits[e].reset_time # None
                        /\ now > rate_limits[e].reset_time) => op'.ok]_vars

\* the search endpoint was denied, and a later check, made after the clock
\* had reached its end, was granted with the quota counted from limit again
C31_Witness ==
    /\ qlog["search_recent"] = "recovered"
    /\ Granted("search_recent")
    /\ rate_limits["search_recent"].remaining = rate_limits["search_recent"].limit - 1
    /\ rate_limits["search_recent"].reset_time = None
    /\ now = MaxTime

============================================================================
